---- MODULE Spec2Model ----
(***************************************************************************)
(* DioxusBrain: the in-memory knowledge-graph core (graph/mod.rs), the     *)
(* text utilities (utils/mod.rs) and the store records (store/mod.rs).     *)
(*                                                                         *)
(* A String is a sequence of one-character strings.  An Option<T> is a     *)
(* sequence of length 0 (None) or 1 (Some).  A HashMap is a function whose *)
(* DOMAIN is its key set; a HashSet is a set.  Iterating a HashMap or a    *)
(* HashSet visits the keys in an order the program does not control: every *)
(* such loop draws its order with \E.                                      *)
(***************************************************************************)
EXTENDS Integers, Sequences, FiniteSets, TLC

VARIABLES
    pages,           \* HashMap<String, Page>: the snapshot last handed to the core
    blocks,          \* HashMap<String, Block>: the snapshot last handed to the core
    active_page_id,  \* Option<&str>: the third argument of build_from_state
    nodes,           \* KnowledgeGraph.nodes
    edges,           \* KnowledgeGraph.edges
    adjacency,       \* KnowledgeGraph.adjacency
    text,            \* the &str handed to a text utility
    lay,             \* GraphLayout.nodes: id -> NodePosition
    canvas,          \* the width and height handed to calculate_layout
    steps,           \* calculate_layout: None when not running, else the
                     \* number of apply_forces calls made so far
    returned,        \* the coordinate maps calculate_layout has returned
    bfs,             \* find_path: its arguments, queue and visited set while
                     \* the search runs
    ret              \* the value the last call returned to its caller

graphVars == <<pages, blocks, active_page_id, nodes, edges, adjacency>>
layoutVars == <<lay, canvas, steps, returned>>
vars == <<graphVars, text, layoutVars, bfs, ret>>

-----------------------------------------------------------------------------
(* Options, sequences, maps *)

None == <<>>
Some(v) == <<v>>

\* no find_path in progress
Idle == [running |-> FALSE]

Range(s) == {s[i] : i \in DOMAIN s}

\* every ordering of the elements of the finite set S (an iteration order)
RECURSIVE Perms(_)
Perms(S) ==
    IF S = {} THEN {<<>>}
    ELSE UNION {{<<x>> \o p : p \in Perms(S \ {x})} : x \in S}

-----------------------------------------------------------------------------
(* Strings *)

\* char::is_whitespace, over the characters the model writes
IsWhitespace(c) == c = " "

RECURSIVE TrimStart(_)
TrimStart(t) ==
    IF t # <<>> /\ IsWhitespace(Head(t)) THEN TrimStart(Tail(t)) ELSE t

RECURSIVE TrimEnd(_)
TrimEnd(t) ==
    IF t # <<>> /\ IsWhitespace(t[Len(t)])
    THEN TrimEnd(SubSeq(t, 1, Len(t) - 1))
    ELSE t

\* str::trim
Trim(t) == TrimEnd(TrimStart(t))

\* the index of the first c in t at or after position k, Len(t) + 1 when none
RECURSIVE IndexFrom(_, _, _)
IndexFrom(t, c, k) ==
    IF k > Len(t) THEN Len(t) + 1
    ELSE IF t[k] = c THEN k
    ELSE IndexFrom(t, c, k + 1)

\* the captures of group 1 of the regex \[\[([^\]]+)\]\] over t from position i,
\* as captures_iter yields them: leftmost match first, the next search starting
\* right after the previous match.  [^\]]+ is greedy and cannot give back a
\* character, so a match at i exists exactly when "[[" is at i, the first "]"
\* after it is at j > i + 2, and another "]" follows at j + 1.
RECURSIVE WikilinkCaptures(_, _)
WikilinkCaptures(t, i) ==
    IF i + 4 > Len(t) THEN <<>>
    ELSE IF t[i] = "[" /\ t[i + 1] = "["
    THEN LET j == IndexFrom(t, "]", i + 2) IN
         IF j > i + 2 /\ j + 1 <= Len(t) /\ t[j + 1] = "]"
         THEN <<SubSeq(t, i + 2, j - 1)>> \o WikilinkCaptures(t, j + 2)
         ELSE WikilinkCaptures(t, i + 1)
    ELSE WikilinkCaptures(t, i + 1)

\* link.split('|').next().unwrap_or(link).trim()
CleanLink(link) == Trim(SubSeq(link, 1, IndexFrom(link, "|", 1) - 1))

\* KnowledgeGraph::extract_wikilinks: the targets, alias stripped and trimmed
GraphExtractWikilinks(content) ==
    LET caps == WikilinkCaptures(content, 1) IN
    [k \in DOMAIN caps |-> CleanLink(caps[k])]

\* SplitLink splitting at the last '|' (rsplit_once)
SplitLinkLast(content) ==
    LET first == IndexFrom(content, "|", 1)
        bar == CHOOSE i \in 0..Len(content) :
                  /\ i > 0 => content[i] = "|"
                  /\ \A j \in (i + 1)..Len(content) : content[j] # "|"
    IN IF first <= Len(content)
       THEN [target |-> Trim(SubSeq(content, 1, bar - 1)),
             alias  |-> Some(Trim(SubSeq(content, bar + 1, Len(content))))]
       ELSE [target |-> Trim(content), alias |-> None]

\* content.split_once('|'), both halves trimmed; no '|': the trimmed content, None
SplitLink(content) ==
    LET bar == IndexFrom(content, "|", 1) IN
    IF bar <= Len(content)
    THEN [target |-> Trim(SubSeq(content, 1, bar - 1)),
          alias  |-> Some(Trim(SubSeq(content, bar + 1, Len(content))))]
    ELSE [target |-> Trim(content), alias |-> None]

\* utils::extract_wikilinks: the (link_text, alias) pairs
extract_wikilinks(t) ==
    LET caps == WikilinkCaptures(t, 1) IN
    [k \in DOMAIN caps |-> SplitLink(caps[k])]

-----------------------------------------------------------------------------
(* Records of the store and of the graph *)

Page(id, title, tags, blks) ==
    [id |-> id, title |-> title, icon |-> None, tags |-> tags, blocks |-> blks]

Block(id, content, parent_id, children) ==
    [id |-> id, content |-> content, parent_id |-> parent_id, children |-> children]

\* from_page taking every node for the open one
from_page_active(page, is_active) ==
    [id |-> page.id, title |-> page.title, icon |-> page.icon, tags |-> page.tags,
     link_count |-> 0, is_active |-> TRUE]

\* GraphNode::from_page
from_page(page, is_active) ==
    [id |-> page.id, title |-> page.title, icon |-> page.icon, tags |-> page.tags,
     link_count |-> 0, is_active |-> is_active]

\* GraphEdge::new
\* GraphEdge::new with the two ends exchanged
GraphEdgeReversed(source, target) == [source |-> target, target |-> source, weight |-> 1]

\* GraphEdge::new
GraphEdge(source, target) == [source |-> source, target |-> target, weight |-> 1]

\* AdjInsert with the insert into an existing entry lost
AdjInsertNewOnly(adj, k, v) ==
    IF k \in DOMAIN adj THEN adj ELSE adj @@ (k :> {v})

\* adjacency.entry(k).or_insert_with(HashSet::new).insert(v)
AdjInsert(adj, k, v) ==
    IF k \in DOMAIN adj THEN [adj EXCEPT ![k] = @ \cup {v}] ELSE adj @@ (k :> {v})

\* CountInc counting a target once however often it is linked
CountIncOnce(counts, k) ==
    IF k \in DOMAIN counts THEN counts ELSE counts @@ (k :> 1)

\* *link_counts.entry(k).or_insert(0) += 1
CountInc(counts, k) ==
    IF k \in DOMAIN counts THEN [counts EXCEPT ![k] = @ + 1] ELSE counts @@ (k :> 1)

EmptyMap == [k \in {} |-> k]

-----------------------------------------------------------------------------
(* KnowledgeGraph::build_from_state *)

\* BuildLinks without the self-link test
RECURSIVE BuildLinksSelfLinked(_, _, _)
BuildLinksSelfLinked(page_id, links, g) ==
    IF links = <<>> THEN g
    ELSE LET link == Head(links)
             counted == [g EXCEPT !.link_counts = CountInc(@, link)]
             linked ==
                 [counted EXCEPT
                     !.edges = Append(@, GraphEdge(page_id, link)),
                     !.adjacency = AdjInsert(AdjInsert(@, page_id, link), link, page_id)]
         IN BuildLinksSelfLinked(page_id, Tail(links), linked)

\* the body of `for link in links`: the counter, then the edge unless a self-link
RECURSIVE BuildLinks(_, _, _)
BuildLinks(page_id, links, g) ==
    IF links = <<>> THEN g
    ELSE LET link == Head(links)
             counted == [g EXCEPT !.link_counts = CountInc(@, link)]
             linked ==
                 IF link # page_id
                 THEN [counted EXCEPT
                          !.edges = Append(@, GraphEdge(page_id, link)),
                          !.adjacency = AdjInsert(AdjInsert(@, page_id, link), link, page_id)]
                 ELSE counted
         IN BuildLinks(page_id, Tail(links), linked)

\* the body of `for block_id in &page.blocks`: a block id the map lacks is skipped
RECURSIVE BuildBlocks(_, _, _, _)
BuildBlocks(page_id, block_ids, blks, g) ==
    IF block_ids = <<>> THEN g
    ELSE LET block_id == Head(block_ids)
             scanned ==
                 IF block_id \in DOMAIN blks
                 THEN BuildLinks(page_id, GraphExtractWikilinks(blks[block_id].content), g)
                 ELSE g
         IN BuildBlocks(page_id, Tail(block_ids), blks, scanned)

\* the first pass, `for (page_id, page) in pages`, in the order the map yields
RECURSIVE BuildPages(_, _, _, _, _)
BuildPages(order, pgs, blks, active, g) ==
    IF order = <<>> THEN g
    ELSE LET page_id == Head(order)
             page == pgs[page_id]
             node == from_page(page, Some(page_id) = active)
             withNode == [g EXCEPT !.nodes = (page_id :> node) @@ @]
         IN BuildPages(Tail(order), pgs, blks, active,
                       BuildBlocks(page_id, page.blocks, blks, withNode))

\* the second pass: a counter whose id has a node sets that node's link_count
PatchLinkCounts(ns, link_counts) ==
    [p \in DOMAIN ns |->
        IF p \in DOMAIN link_counts
        THEN [ns[p] EXCEPT !.link_count = link_counts[p]]
        ELSE ns[p]]

\* KnowledgeGraph::default
KnowledgeGraphDefault == [nodes |-> EmptyMap, edges |-> <<>>, adjacency |-> EmptyMap]

\* Clear leaving the graph as it is
ClearNothing(self) == self

\* self.nodes.clear(); self.edges.clear(); self.adjacency.clear()
Clear(self) == [nodes |-> EmptyMap, edges |-> <<>>, adjacency |-> EmptyMap]

\* the graph self after self.build_from_state(pgs, blks, active), the page map
\* iterated in `order`
build_from_state(self, order, pgs, blks, active) ==
    LET cleared == Clear(self)
        g == BuildPages(order, pgs, blks, active,
                        [nodes |-> cleared.nodes, edges |-> cleared.edges,
                         adjacency |-> cleared.adjacency, link_counts |-> EmptyMap])
    IN [nodes |-> PatchLinkCounts(g.nodes, g.link_counts),
        edges |-> g.edges,
        adjacency |-> g.adjacency]

-----------------------------------------------------------------------------
(* KnowledgeGraph's queries *)

\* get_stats without the more-than-one-node condition
get_stats_all_isolated(ns, es) ==
    [total_pages |-> Cardinality(DOMAIN ns),
     total_links |-> Len(es),
     connected_pages |-> Cardinality({p \in DOMAIN ns : ns[p].link_count > 0}),
     isolated_pages |-> Cardinality({p \in DOMAIN ns : ns[p].link_count = 0})]

\* KnowledgeGraph::get_stats
get_stats(ns, es) ==
    [total_pages |-> Cardinality(DOMAIN ns),
     total_links |-> Len(es),
     connected_pages |-> Cardinality({p \in DOMAIN ns : ns[p].link_count > 0}),
     isolated_pages |->
        Cardinality({p \in DOMAIN ns :
                        ns[p].link_count = 0 /\ Cardinality(DOMAIN ns) > 1})]

\* slice::sort_by(|a, b| b.1.cmp(&a.1)): a stable sort, greatest count first.
\* InsertByCount puts h behind every element that does not compare after it.
RECURSIVE InsertByCount(_, _)
InsertByCount(sorted, h) ==
    IF sorted = <<>> THEN <<h>>
    ELSE IF Head(sorted)[2] >= h[2]
    THEN <<Head(sorted)>> \o InsertByCount(Tail(sorted), h)
    ELSE <<h>> \o sorted

RECURSIVE SortByCountDesc(_)
SortByCountDesc(s) ==
    IF s = <<>> THEN <<>>
    ELSE InsertByCount(SortByCountDesc(SubSeq(s, 1, Len(s) - 1)), s[Len(s)])

\* Iterator::take
Take(s, n) == SubSeq(s, 1, IF n < Len(s) THEN n ELSE Len(s))

\* the filter letting zero counts through
IsHubOrZero(h) == h[2] >= 0

\* .filter(|(_, count)| *count > 0)
IsHub(h) == h[2] > 0

\* KnowledgeGraph::get_hub_pages, nodes.values() yielding the nodes in `order`
get_hub_pages(ns, order, limit) ==
    LET mapped == [k \in DOMAIN order |-> <<ns[order[k]], ns[order[k]].link_count>>]
        hubs == SelectSeq(mapped, IsHub)
    IN Take(SortByCountDesc(hubs), limit)

\* VisitNeighbors pushing onto one path shared by all the neighbours
RECURSIVE VisitNeighborsSharedPath(_, _, _)
VisitNeighborsSharedPath(order, path, search) ==
    IF order = <<>> THEN search
    ELSE LET neighbor == Head(order) IN
         IF neighbor \notin search.visited
         THEN VisitNeighborsSharedPath(Tail(order), Append(path, neighbor),
                  [queue |-> Append(search.queue, <<neighbor, Append(path, neighbor)>>),
                   visited |-> search.visited \cup {neighbor}])
         ELSE VisitNeighborsSharedPath(Tail(order), path, search)

\* VisitNeighbors without the visited test
RECURSIVE VisitNeighborsRevisiting(_, _, _)
VisitNeighborsRevisiting(order, path, search) ==
    IF order = <<>> THEN search
    ELSE LET neighbor == Head(order) IN
         VisitNeighborsRevisiting(Tail(order), path,
             [queue |-> Append(search.queue, <<neighbor, Append(path, neighbor)>>),
              visited |-> search.visited \cup {neighbor}])

\* the body of `for neighbor in neighbors`, the set yielding its ids in `order`;
\* search is [queue, visited]
RECURSIVE VisitNeighbors(_, _, _)
VisitNeighbors(order, path, search) ==
    IF order = <<>> THEN search
    ELSE LET neighbor == Head(order) IN
         IF neighbor \notin search.visited
         THEN VisitNeighbors(Tail(order), path,
                  [queue |-> Append(search.queue, <<neighbor, Append(path, neighbor)>>),
                   visited |-> search.visited \cup {neighbor}])
         ELSE VisitNeighbors(Tail(order), path, search)

\* the `while let Some((current, path)) = queue.pop_front()` loop: every value
\* it can return, over the orders in which the neighbour sets can be iterated
RECURSIVE BfsLoop(_, _, _)
BfsLoop(adj, end, search) ==
    IF search.queue = <<>> THEN {None}
    ELSE LET current == Head(search.queue)[1]
             path == Head(search.queue)[2]
             popped == [search EXCEPT !.queue = Tail(@)]
         IN IF current = end THEN {Some(path)}
            ELSE IF current \in DOMAIN adj
            THEN UNION {BfsLoop(adj, end, VisitNeighbors(order, path, popped)) :
                            order \in Perms(adj[current])}
            ELSE BfsLoop(adj, end, popped)

\* find_path checking only that start has a node
find_path_unchecked_end(ns, adj, start, end) ==
    IF start \notin DOMAIN ns THEN {None}
    ELSE BfsLoop(adj, end, [queue |-> <<<<start, <<start>>>>>>, visited |-> {start}])

\* KnowledgeGraph::find_path: the set of values the call can return
find_path(ns, adj, start, end) ==
    IF start \notin DOMAIN ns \/ end \notin DOMAIN ns THEN {None}
    ELSE BfsLoop(adj, end, [queue |-> <<<<start, <<start>>>>>>, visited |-> {start}])

-----------------------------------------------------------------------------
(* utils: truncate_text and search_pages *)

\* char::to_lowercase, over the characters the model writes
LowerChar(c) ==
    CASE c = "F" -> "f"
      [] c = "O" -> "o"
      [] c = "B" -> "b"
      [] OTHER -> c

\* ToLowercase leaving every character as it is
ToLowercaseIdentity(t) == t

\* str::to_lowercase
ToLowercase(t) == [i \in DOMAIN t |-> LowerChar(t[i])]

\* str::contains: needle is a contiguous part of hay
RECURSIVE ContainsFrom(_, _, _)
ContainsFrom(hay, needle, i) ==
    IF i + Len(needle) - 1 > Len(hay) THEN FALSE
    ELSE IF SubSeq(hay, i, i + Len(needle) - 1) = needle THEN TRUE
    ELSE ContainsFrom(hay, needle, i + 1)

Contains(hay, needle) == ContainsFrom(hay, needle, 1)

\* usize::saturating_sub
SaturatingSub(a, b) == IF a > b THEN a - b ELSE 0

\* utils::truncate_text
truncate_text(t, max_length) ==
    IF Len(t) <= max_length THEN t
    ELSE TrimEnd(SubSeq(t, 1, SaturatingSub(max_length, 3))) \o <<".", ".", ".">>

\* the snippet length search_pages truncates a matching block to
SnippetLength == 100

\* the title score of search_pages
TitleScore == 10

\* what each matching block adds to the score
BlockScore == 2

\* the `for block_id in &page.blocks` loop of search_pages: the snippets
RECURSIVE BlockMatches(_, _, _)
BlockMatches(block_ids, blks, query_lower) ==
    IF block_ids = <<>> THEN <<>>
    ELSE LET block_id == Head(block_ids)
             rest == BlockMatches(Tail(block_ids), blks, query_lower)
         IN IF block_id \in DOMAIN blks
               /\ Contains(ToLowercase(blks[block_id].content), query_lower)
            THEN <<truncate_text(blks[block_id].content, SnippetLength)>> \o rest
            ELSE rest

\* the body of `for page in pages.values()`: the page's result, if it has one
PageResult(page, blks, query_lower) ==
    LET title_score ==
            IF Contains(ToLowercase(page.title), query_lower) THEN TitleScore ELSE 0
        block_matches == BlockMatches(page.blocks, blks, query_lower)
    IN IF title_score > 0 \/ block_matches # <<>>
       THEN <<[page_id |-> page.id, page_title |-> page.title,
               score |-> title_score + Len(block_matches) * BlockScore,
               block_matches |-> block_matches]>>
       ELSE <<>>

RECURSIVE SearchLoop(_, _, _, _)
SearchLoop(order, pgs, blks, query_lower) ==
    IF order = <<>> THEN <<>>
    ELSE PageResult(pgs[Head(order)], blks, query_lower)
            \o SearchLoop(Tail(order), pgs, blks, query_lower)

\* results.sort_by(|a, b| b.score.cmp(&a.score)): stable, greatest score first
RECURSIVE InsertByScore(_, _)
InsertByScore(sorted, r) ==
    IF sorted = <<>> THEN <<r>>
    ELSE IF Head(sorted).score >= r.score
    THEN <<Head(sorted)>> \o InsertByScore(Tail(sorted), r)
    ELSE <<r>> \o sorted

\* SortByScoreDesc leaving the results in the order the loop pushed them
SortByScoreUnsorted(s) == s

RECURSIVE SortByScoreDesc(_)
SortByScoreDesc(s) ==
    IF s = <<>> THEN <<>>
    ELSE InsertByScore(SortByScoreDesc(SubSeq(s, 1, Len(s) - 1)), s[Len(s)])

\* utils::search_pages, pages.values() yielding the pages in `order`
search_pages(query, order, pgs, blks) ==
    SortByScoreDesc(SearchLoop(order, pgs, blks, ToLowercase(query)))

-----------------------------------------------------------------------------
(* The snapshots handed to the core *)

PageA == <<"a">>
PageB == <<"b">>
PageC == <<"c">>
\* a wikilink target no page is named after
Dangling == <<"d">>

PageIds == {PageA, PageB, PageC}
Ids == PageIds \cup {Dangling}

Block1 == <<"1">>
Block2 == <<"2">>
Block3 == <<"3">>
\* a block id some pages list and the block map lacks
MissingBlock == <<"4">>

Link(inner) == <<"[", "[">> \o inner \o <<"]", "]">>

\* the block map of every snapshot:
\*   1: [[a]][[a]]     2: [[ b |x]]     3: [[c]] [[d]]
Corpus ==
    (Block1 :> Block(Block1, Link(PageA) \o Link(PageA), None, <<>>))
    @@ (Block2 :> Block(Block2, Link(<<" ">> \o PageB \o <<" ", "|", "x">>), None, <<>>))
    @@ (Block3 :> Block(Block3, Link(PageC) \o <<" ">> \o Link(Dangling), None, <<>>))

\* the block lists a page of a snapshot can have
BlockLists ==
    {<<Block1>>, <<Block2>>, <<Block3>>, <<Block2, Block3>>, <<MissingBlock>>}

ActiveIds == {None, Some(PageA)}

\* the largest limit get_hub_pages is called with
MaxLimit == 3

\* the snapshots one edit away from (pgs, blks, active): a page put or replaced,
\* a page removed, another page opened
Edits(pgs, blks, active) ==
    {[pages |-> (p :> Page(p, p, <<>>, bl)) @@ pgs, blocks |-> blks, active |-> active] :
        p \in PageIds, bl \in BlockLists}
    \cup {[pages |-> [q \in DOMAIN pgs \ {p} |-> pgs[q]], blocks |-> blks, active |-> active] :
        p \in DOMAIN pgs}
    \cup {[pages |-> pgs, blocks |-> blks, active |-> a] : a \in ActiveIds \ {active}}

-----------------------------------------------------------------------------
(* The graph's life.  The core is synchronous: a call hands its value back   *)
(* (ret) and the caller takes it (Return) before the next call starts.      *)

NoRet == [op |-> "none"]

Init ==
    /\ pages = EmptyMap
    /\ blocks = Corpus
    /\ active_page_id = None
    /\ nodes = EmptyMap
    /\ edges = <<>>
    /\ adjacency = EmptyMap
    /\ text = <<>>
    /\ lay = EmptyMap
    /\ canvas = [width |-> 0, height |-> 0]
    /\ steps = None
    /\ returned = <<>>
    /\ ret = NoRet
    /\ bfs = Idle

BuildFromState ==
    /\ ret = NoRet
    /\ \E s \in Edits(pages, blocks, active_page_id) :
         \E order \in Perms(DOMAIN s.pages) :
           LET g == build_from_state([nodes |-> nodes, edges |-> edges, adjacency |-> adjacency],
                                     order, s.pages, s.blocks, s.active) IN
           /\ pages' = s.pages
           /\ blocks' = s.blocks
           /\ active_page_id' = s.active
           /\ nodes' = g.nodes
           /\ edges' = g.edges
           /\ adjacency' = g.adjacency
           /\ ret' = NoRet
           /\ UNCHANGED <<text, layoutVars, bfs>>

GetStats ==
    /\ ret = NoRet
    /\ ret' = [op |-> "get_stats", value |-> get_stats(nodes, edges)]
    /\ UNCHANGED <<graphVars, text, layoutVars, bfs>>

GetHubPages ==
    /\ ret = NoRet
    /\ \E limit \in 0..MaxLimit, order \in Perms(DOMAIN nodes) :
         ret' = [op |-> "get_hub_pages", limit |-> limit,
                 value |-> get_hub_pages(nodes, order, limit)]
    /\ UNCHANGED <<graphVars, text, layoutVars, bfs>>

FindPath ==
    /\ ret = NoRet
    /\ \E start \in Ids, end \in Ids :
         \E r \in find_path(nodes, adjacency, start, end) :
           ret' = [op |-> "find_path", start |-> start, end |-> end, value |-> r]
    /\ UNCHANGED <<graphVars, text, layoutVars, bfs>>

Return ==
    /\ ret # NoRet
    /\ ret' = NoRet
    /\ UNCHANGED <<graphVars, text, layoutVars, bfs>>

Next ==
    \/ BuildFromState
    \/ GetStats
    \/ GetHubPages
    \/ FindPath
    \/ Return

Spec == Init /\ [][Next]_vars

-----------------------------------------------------------------------------
(* The text utilities, applied to a text *)

\* the pieces the texts are put together from
Segments ==
    { <<"[", "[">>, <<"]", "]">>, <<"[">>, <<"]">>, <<"|">>, <<" ">>, <<"a">>,
      Link(<<"a">>), Link(<<"a", "|", "b">>) }

\* the most pieces in a text
MaxSegments == 4

RECURSIVE TextsOf(_)
TextsOf(n) ==
    IF n = 0 THEN {<<>>}
    ELSE LET shorter == TextsOf(n - 1) IN
         shorter \cup {t \o seg : t \in shorter, seg \in Segments}

TextInit ==
    /\ text \in TextsOf(MaxSegments)
    /\ pages = EmptyMap
    /\ blocks = EmptyMap
    /\ active_page_id = None
    /\ nodes = EmptyMap
    /\ edges = <<>>
    /\ adjacency = EmptyMap
    /\ lay = EmptyMap
    /\ canvas = [width |-> 0, height |-> 0]
    /\ steps = None
    /\ returned = <<>>
    /\ ret = NoRet
    /\ bfs = Idle

ExtractWikilinks ==
    /\ ret = NoRet
    /\ ret' = [op |-> "extract_wikilinks", value |-> extract_wikilinks(text)]
    /\ UNCHANGED <<graphVars, text, layoutVars, bfs>>

TextNext ==
    \/ ExtractWikilinks
    \/ Return

TextSpec == TextInit /\ [][TextNext]_vars

-----------------------------------------------------------------------------
(* search_pages, applied to a snapshot *)

\* Fo   ab   (the title of a page of the searched snapshots)
SearchTitles == {<<"F", "o">>, <<"a", "b">>}

\* the block map of the searched snapshots:
\*   1: foo     2: a FO b     3: ab
SearchCorpus ==
    (Block1 :> Block(Block1, <<"f", "o", "o">>, None, <<>>))
    @@ (Block2 :> Block(Block2, <<"a", " ", "F", "O", " ", "b">>, None, <<>>))
    @@ (Block3 :> Block(Block3, <<"a", "b">>, None, <<>>))

SearchBlockLists ==
    {<<>>, <<Block1>>, <<Block1, Block2>>, <<Block3, MissingBlock>>}

\* fo   O   b   (empty)   x
Queries == {<<"f", "o">>, <<"O">>, <<"b">>, <<>>, <<"x">>}

SearchPageSets ==
    UNION {[present -> {Page(<<"p">>, ti, <<>>, bl) : ti \in SearchTitles, bl \in SearchBlockLists}] :
              present \in SUBSET PageIds}

SearchInit ==
    /\ \E chosen \in SearchPageSets :
         pages = [p \in DOMAIN chosen |-> [chosen[p] EXCEPT !.id = p]]
    /\ blocks = SearchCorpus
    /\ active_page_id = None
    /\ nodes = EmptyMap
    /\ edges = <<>>
    /\ adjacency = EmptyMap
    /\ text = <<>>
    /\ lay = EmptyMap
    /\ canvas = [width |-> 0, height |-> 0]
    /\ steps = None
    /\ returned = <<>>
    /\ ret = NoRet
    /\ bfs = Idle

SearchPages ==
    /\ ret = NoRet
    /\ \E query \in Queries, order \in Perms(DOMAIN pages) :
         ret' = [op |-> "search_pages", query |-> query,
                 value |-> search_pages(query, order, pages, blocks)]
    /\ UNCHANGED <<graphVars, text, layoutVars, bfs>>

SearchNext ==
    \/ SearchPages
    \/ Return

SearchSpec == SearchInit /\ [][SearchNext]_vars

-----------------------------------------------------------------------------
(* f64.  A finite value is held in hundredths and every operation on finite *)
(* values truncates towards zero; the infinities and NaN are values of      *)
(* their own and follow IEEE 754: x / 0 is an infinity for x # 0, 0 / 0 and *)
(* 0 * infinity are NaN, NaN spreads through every operation and every      *)
(* comparison with NaN is false.  Overflow to infinity and the negative     *)
(* zero are out of reach of the canvases below and are left out.            *)

Scale == 100

Num(v) == [k |-> "num", v |-> v]

Inf(s) == [k |-> "inf", v |-> s]

NaN == [k |-> "nan", v |-> 0]

\* the f64 of the whole number n
F(n) == Num(n * Scale)

\* the f64 of n / d
Dec(n, d) == Num((n * Scale) \div d)

Abs(n) == IF n < 0 THEN -n ELSE n

Sgn(n) == IF n < 0 THEN -1 ELSE 1

\* a / b truncated towards zero, b # 0
Quot(a, b) == Sgn(a) * Sgn(b) * (Abs(a) \div Abs(b))

RECURSIVE IsqrtBetween(_, _, _)
\* the largest r of lo..hi with r * r <= n
IsqrtBetween(n, lo, hi) ==
    IF lo >= hi THEN lo
    ELSE LET mid == (lo + hi + 1) \div 2 IN
         IF mid * mid <= n THEN IsqrtBetween(n, mid, hi)
         ELSE IsqrtBetween(n, lo, mid - 1)

Isqrt(n) == IsqrtBetween(n, 0, IF n < 46340 THEN n ELSE 46340)

FNeg(a) == IF a.k = "nan" THEN NaN ELSE [a EXCEPT !.v = -a.v]

FAdd(a, b) ==
    IF a.k = "nan" \/ b.k = "nan" THEN NaN
    ELSE IF a.k = "inf" THEN (IF b.k = "inf" /\ b.v # a.v THEN NaN ELSE a)
    ELSE IF b.k = "inf" THEN b
    ELSE Num(a.v + b.v)

FSub(a, b) == FAdd(a, FNeg(b))

FMul(a, b) ==
    IF a.k = "nan" \/ b.k = "nan" THEN NaN
    ELSE IF a.k = "inf" \/ b.k = "inf"
         THEN (IF a.v = 0 \/ b.v = 0 THEN NaN ELSE Inf(Sgn(a.v) * Sgn(b.v)))
    ELSE Num(Quot(a.v * b.v, Scale))

FDiv(a, b) ==
    IF a.k = "nan" \/ b.k = "nan" THEN NaN
    ELSE IF a.k = "inf" THEN (IF b.k = "inf" THEN NaN ELSE Inf(Sgn(a.v) * Sgn(b.v)))
    ELSE IF b.k = "inf" THEN Num(0)
    ELSE IF b.v = 0 THEN (IF a.v = 0 THEN NaN ELSE Inf(Sgn(a.v)))
    ELSE Num(Quot(a.v * Scale, b.v))

FSqrt(a) ==
    IF a.k = "nan" \/ a.v < 0 THEN NaN
    ELSE IF a.k = "inf" THEN a
    ELSE Num(Isqrt(a.v * Scale))

\* a < b
FLt(a, b) ==
    IF a.k = "nan" \/ b.k = "nan" THEN FALSE
    ELSE IF a.k = "inf" THEN a.v < 0 /\ ~(b.k = "inf" /\ b.v < 0)
    ELSE IF b.k = "inf" THEN b.v > 0
    ELSE a.v < b.v

\* f64::max and f64::min: a NaN operand is passed over
FMax(a, b) == IF a.k = "nan" THEN b ELSE IF b.k = "nan" THEN a ELSE IF FLt(a, b) THEN b ELSE a

FMin(a, b) == IF a.k = "nan" THEN b ELSE IF b.k = "nan" THEN a ELSE IF FLt(b, a) THEN b ELSE a

\* f64::clamp: below min gives min, above max gives max, NaN stays NaN
FClamp(a, min, max) == IF FLt(a, min) THEN min ELSE IF FLt(max, a) THEN max ELSE a

-----------------------------------------------------------------------------
(* GraphLayout *)

\* (cos, sin) of 2 * PI * i / n in hundredths, i = 0..n-1, for n = 1, 2, 3
CircleTable ==
    << << <<100, 0>> >>,
       << <<100, 0>>, <<-100, 0>> >>,
       << <<100, 0>>, <<-50, 87>>, <<-50, -87>> >> >>

Cos(i, n) == Dec(CircleTable[n][i + 1][1], 100)

Sin(i, n) == Dec(CircleTable[n][i + 1][2], 100)

NodePosition(x, y, vx, vy) == [x |-> x, y |-> y, vx |-> vx, vy |-> vy]

\* the positions on the circle, node_ids being graph.nodes.keys() as iterated
InitialPositions(node_ids, width, height) ==
    LET center_x == FDiv(width, F(2))
        center_y == FDiv(height, F(2))
        radius == FDiv(FMin(width, height), F(4))
        n == Len(node_ids)
    IN [id \in Range(node_ids) |->
          LET i == (CHOOSE k \in DOMAIN node_ids : node_ids[k] = id) - 1 IN
          NodePosition(FAdd(center_x, FMul(radius, Cos(i, n))),
                       FAdd(center_y, FMul(radius, Sin(i, n))),
                       F(0), F(0))]

Steps == 100

Repulsion == 5000

Margin == 50

\* pos.vx *= damping; pos.vy *= damping
Damp(ly) ==
    [id \in DOMAIN ly |->
        [ly[id] EXCEPT !.vx = FMul(@, Dec(85, 100)), !.vy = FMul(@, Dec(85, 100))]]

\* one pair of the repulsion loop
Repel(ly, a, b) ==
    LET dx == FSub(ly[b].x, ly[a].x)
        dy == FSub(ly[b].y, ly[a].y)
        dist_sq == FAdd(FMul(dx, dx), FMul(dy, dy))
        dist == FMax(FSqrt(dist_sq), F(1))
        force == FDiv(F(Repulsion), dist_sq)
        fx == FMul(FDiv(dx, dist), force)
        fy == FMul(FDiv(dy, dist), force)
    IN [ly EXCEPT ![a].vx = FSub(@, fx), ![a].vy = FSub(@, fy),
                  ![b].vx = FAdd(@, fx), ![b].vy = FAdd(@, fy)]

RECURSIVE RepelPairs(_, _, _, _)
\* the pairs (keys[i], keys[j]) from (i, j) on, i < j, j running fastest
RepelPairs(keys, i, j, ly) ==
    IF i > Len(keys) THEN ly
    ELSE IF j > Len(keys) THEN RepelPairs(keys, i + 1, i + 2, ly)
    ELSE RepelPairs(keys, i, j + 1, Repel(ly, keys[i], keys[j]))

\* one edge of the attraction loop
Attract(ly, edge) ==
    IF edge.source \in DOMAIN ly /\ edge.target \in DOMAIN ly
    THEN LET dx == FSub(ly[edge.target].x, ly[edge.source].x)
             dy == FSub(ly[edge.target].y, ly[edge.source].y)
             dist == FMax(FSqrt(FAdd(FMul(dx, dx), FMul(dy, dy))), F(1))
             force == FMul(dist, Dec(1, 100))
             fx == FMul(FDiv(dx, dist), force)
             fy == FMul(FDiv(dy, dist), force)
             src == [ly EXCEPT ![edge.source].vx = FAdd(@, fx),
                               ![edge.source].vy = FAdd(@, fy)]
         IN [src EXCEPT ![edge.target].vx = FSub(@, fx),
                        ![edge.target].vy = FSub(@, fy)]
    ELSE ly

RECURSIVE AttractEdges(_, _, _)
AttractEdges(es, i, ly) ==
    IF i > Len(es) THEN ly ELSE AttractEdges(es, i + 1, Attract(ly, es[i]))

\* pos.x += pos.vx; pos.y += pos.vy; then the clamp into the canvas
Move(ly, width, height) ==
    [id \in DOMAIN ly |->
        [ly[id] EXCEPT
            !.x = FClamp(FAdd(@, ly[id].vx), F(Margin), FSub(width, F(Margin))),
            !.y = FClamp(FAdd(@, ly[id].vy), F(Margin), FSub(height, F(Margin)))]]

\* keys is self.nodes.keys() as iterated
apply_forces(keys, es, ly, width, height) ==
    Move(AttractEdges(es, 1, RepelPairs(keys, 1, 2, Damp(ly))), width, height)

-----------------------------------------------------------------------------
(* calculate_layout, called on a built graph *)

MaxCalls == 2

Canvases == {[width |-> 100, height |-> 100], [width |-> 200, height |-> 160]}

LayoutPageSets ==
    { (PageA :> Page(PageA, PageA, <<>>, <<MissingBlock>>)),
      (PageA :> Page(PageA, PageA, <<>>, <<MissingBlock>>))
         @@ (PageB :> Page(PageB, PageB, <<>>, <<MissingBlock>>)),
      (PageA :> Page(PageA, PageA, <<>>, <<Block2>>))
         @@ (PageB :> Page(PageB, PageB, <<>>, <<MissingBlock>>)),
      (PageA :> Page(PageA, PageA, <<>>, <<Block3>>))
         @@ (PageC :> Page(PageC, PageC, <<>>, <<MissingBlock>>)),
      (PageA :> Page(PageA, PageA, <<>>, <<Block2>>))
         @@ (PageB :> Page(PageB, PageB, <<>>, <<MissingBlock>>))
         @@ (PageC :> Page(PageC, PageC, <<>>, <<MissingBlock>>)) }

LayoutInit ==
    /\ \E pgs \in LayoutPageSets :
         \E order \in Perms(DOMAIN pgs) :
           LET g == build_from_state(KnowledgeGraphDefault, order, pgs, Corpus, None) IN
           /\ pages = pgs
           /\ nodes = g.nodes
           /\ edges = g.edges
           /\ adjacency = g.adjacency
    /\ blocks = Corpus
    /\ active_page_id = None
    /\ text = <<>>
    /\ lay = EmptyMap
    /\ canvas \in Canvases
    /\ steps = None
    /\ returned = <<>>
    /\ ret = NoRet
    /\ bfs = Idle

\* calculate_layout up to the simulation loop
CalculateLayoutStart ==
    /\ steps = None
    /\ Len(returned) < MaxCalls
    /\ \E node_ids \in Perms(DOMAIN nodes) :
         lay' = InitialPositions(node_ids, F(canvas.width), F(canvas.height))
    /\ steps' = Some(0)
    /\ UNCHANGED <<graphVars, text, canvas, returned, ret, bfs>>

\* one turn of the simulation loop
ApplyForces ==
    /\ steps # None
    /\ steps[1] < Steps
    /\ \E keys \in Perms(DOMAIN lay) :
         lay' = apply_forces(keys, edges, lay, F(canvas.width), F(canvas.height))
    /\ steps' = Some(steps[1] + 1)
    /\ UNCHANGED <<graphVars, text, canvas, returned, ret, bfs>>

\* the loop is over: the final positions go back to the caller
CalculateLayoutReturn ==
    /\ steps = Some(Steps)
    /\ returned' = Append(returned, [id \in DOMAIN lay |-> <<lay[id].x, lay[id].y>>])
    /\ steps' = None
    /\ UNCHANGED <<graphVars, text, lay, canvas, ret, bfs>>

LayoutNext ==
    \/ CalculateLayoutStart
    \/ ApplyForces
    \/ CalculateLayoutReturn

LayoutSpec == LayoutInit /\ [][LayoutNext]_vars

-----------------------------------------------------------------------------
(* truncate_text, applied to a text *)

MaxLength == 5

\* the texts of up to MaxLength + 1 characters over 'a' and ' ', and 150 'a'
TruncateTexts ==
    UNION {[1..n -> {"a", " "}] : n \in 0..(MaxLength + 1)} \cup {[i \in 1..150 |-> "a"]}

TruncateInit ==
    /\ pages = EmptyMap
    /\ blocks = EmptyMap
    /\ active_page_id = None
    /\ nodes = EmptyMap
    /\ edges = <<>>
    /\ adjacency = EmptyMap
    /\ text \in TruncateTexts
    /\ lay = EmptyMap
    /\ canvas = [width |-> 0, height |-> 0]
    /\ steps = None
    /\ returned = <<>>
    /\ ret = NoRet
    /\ bfs = Idle

TruncateText ==
    /\ ret = NoRet
    /\ \E max_length \in (0..MaxLength) \cup {SnippetLength} :
         ret' = [op |-> "truncate_text", max_length |-> max_length,
                 value |-> truncate_text(text, max_length)]
    /\ UNCHANGED <<graphVars, text, layoutVars, bfs>>

TruncateNext ==
    \/ TruncateText
    \/ Return

TruncateSpec == TruncateInit /\ [][TruncateNext]_vars

-----------------------------------------------------------------------------
(* AppState::get_backlinks *)

Backlink(page_id, page_title, block_id, context) ==
    [page_id |-> page_id, page_title |-> page_title,
     block_id |-> block_id, context |-> context]

\* format!("[[{}]]", page_title) and format!("[[{}|", page_title)
ClosedLink(page_title) == <<"[", "[">> \o page_title \o <<"]", "]">>

AliasedLink(page_title) == <<"[", "[">> \o page_title \o <<"|">>

\* BacklinkMatches looking for the [[title]] form only
BacklinkMatchesClosedOnly(content, page_title) ==
    Contains(ToLowercase(content), ClosedLink(page_title))

\* the test of the inner loop of get_backlinks
BacklinkMatches(content, page_title) ==
    \/ Contains(ToLowercase(content), ClosedLink(page_title))
    \/ Contains(ToLowercase(content), AliasedLink(page_title))

\* `for block_id in &page.blocks` of get_backlinks
RECURSIVE BacklinkBlocks(_, _, _, _, _)
BacklinkBlocks(block_ids, source_id, page, blks, page_title) ==
    IF block_ids = <<>> THEN <<>>
    ELSE LET block_id == Head(block_ids)
             rest == BacklinkBlocks(Tail(block_ids), source_id, page, blks, page_title)
         IN IF block_id \in DOMAIN blks /\ BacklinkMatches(blks[block_id].content, page_title)
            THEN <<Backlink(source_id, page.title, blks[block_id].id, blks[block_id].content)>>
                    \o rest
            ELSE rest

\* `for (source_id, page) in &self.pages` of get_backlinks
RECURSIVE BacklinkPages(_, _, _, _, _)
BacklinkPages(order, page_id, pgs, blks, page_title) ==
    IF order = <<>> THEN <<>>
    ELSE LET source_id == Head(order)
             rest == BacklinkPages(Tail(order), page_id, pgs, blks, page_title)
         IN IF source_id = page_id THEN rest
            ELSE BacklinkBlocks(pgs[source_id].blocks, source_id, pgs[source_id],
                                blks, page_title) \o rest

\* AppState::get_backlinks, self.pages yielding its entries in `order`
get_backlinks(page_id, order, pgs, blks) ==
    LET page_title == IF page_id \in DOMAIN pgs THEN ToLowercase(pgs[page_id].title)
                      ELSE page_id
    IN BacklinkPages(order, page_id, pgs, blks, page_title)

\* the block map of the snapshots asked for backlinks:
\*   1: [[fo]]     2: [[FO|y]] [[fo]]     3: [[ab|]] fo
BacklinkCorpus ==
    (Block1 :> Block(Block1, <<"[", "[", "f", "o", "]", "]">>, None, <<>>))
    @@ (Block2 :> Block(Block2, <<"[", "[", "F", "O", "|", "y", "]", "]", " ",
                                  "[", "[", "f", "o", "]", "]">>, None, <<>>))
    @@ (Block3 :> Block(Block3, <<"[", "[", "a", "b", "|", "]", "]", " ", "f", "o">>,
                        None, <<>>))

BacklinkBlockLists ==
    {<<>>, <<Block1>>, <<Block1, Block2>>, <<Block3, MissingBlock>>, <<Block2, Block2>>}

\* ids of pages that are not there: fo, Fo
AbsentIds == {<<"f", "o">>, <<"F", "o">>}

BacklinkPageSets ==
    UNION {[present -> {Page(<<"p">>, ti, <<>>, bl) : ti \in SearchTitles,
                                                       bl \in BacklinkBlockLists}] :
              present \in SUBSET PageIds}

BacklinkInit ==
    /\ \E chosen \in BacklinkPageSets :
         pages = [p \in DOMAIN chosen |-> [chosen[p] EXCEPT !.id = p]]
    /\ blocks = BacklinkCorpus
    /\ active_page_id = None
    /\ nodes = EmptyMap
    /\ edges = <<>>
    /\ adjacency = EmptyMap
    /\ text = <<>>
    /\ lay = EmptyMap
    /\ canvas = [width |-> 0, height |-> 0]
    /\ steps = None
    /\ returned = <<>>
    /\ ret = NoRet
    /\ bfs = Idle

GetBacklinks ==
    /\ ret = NoRet
    /\ \E page_id \in PageIds \cup AbsentIds, order \in Perms(DOMAIN pages) :
         ret' = [op |-> "get_backlinks", page_id |-> page_id,
                 value |-> get_backlinks(page_id, order, pages, blocks)]
    /\ UNCHANGED <<graphVars, text, layoutVars, bfs>>

BacklinkNext ==
    \/ GetBacklinks
    \/ Return

BacklinkSpec == BacklinkInit /\ [][BacklinkNext]_vars

-----------------------------------------------------------------------------
(* KnowledgeGraph::get_related_pages *)

\* calculate_relevance without the tag term
calculate_relevance_untagged(adj, ns, page1, page2) ==
    (IF page1 \in DOMAIN adj /\ page2 \in adj[page1] THEN 1 ELSE 0)
    + (IF page1 \in DOMAIN adj /\ page2 \in DOMAIN adj
       THEN Cardinality(adj[page1] \cap adj[page2]) ELSE 0)

\* KnowledgeGraph::calculate_relevance
calculate_relevance(adj, ns, page1, page2) ==
    (IF page1 \in DOMAIN adj /\ page2 \in adj[page1] THEN 1 ELSE 0)
    + (IF page1 \in DOMAIN adj /\ page2 \in DOMAIN adj
       THEN Cardinality(adj[page1] \cap adj[page2]) ELSE 0)
    + (IF page1 \in DOMAIN ns /\ page2 \in DOMAIN ns
       THEN Cardinality(Range(ns[page1].tags) \cap Range(ns[page2].tags)) * 2 ELSE 0)

\* related.sort_by(|a, b| b.1.cmp(&a.1)): stable, greatest weight first
RECURSIVE InsertByWeight(_, _)
InsertByWeight(sorted, r) ==
    IF sorted = <<>> THEN <<r>>
    ELSE IF Head(sorted)[2] >= r[2]
    THEN <<Head(sorted)>> \o InsertByWeight(Tail(sorted), r)
    ELSE <<r>> \o sorted

RECURSIVE SortByWeightDesc(_)
SortByWeightDesc(s) ==
    IF s = <<>> THEN <<>>
    ELSE InsertByWeight(SortByWeightDesc(SubSeq(s, 1, Len(s) - 1)), s[Len(s)])

\* get_related_pages, the neighbour set yielding its ids in `order`
get_related_pages(adj, ns, page_id, order) ==
    SortByWeightDesc([k \in DOMAIN order |->
                        <<order[k], calculate_relevance(adj, ns, page_id, order[k])>>])

\* the tag lists of the pages of the snapshots:  (none)   t   t u t
TagLists == {<<>>, <<<<"t">>>>, <<<<"t">>, <<"u">>, <<"t">>>>}

RelatedBlockLists == {<<MissingBlock>>, <<Block2>>, <<Block3>>, <<Block2, Block3>>}

RelatedPageSets ==
    UNION {[present -> {Page(<<"p">>, <<"p">>, tg, bl) : tg \in TagLists,
                                                          bl \in RelatedBlockLists}] :
              present \in SUBSET PageIds}

RelatedInit ==
    /\ \E chosen \in RelatedPageSets :
         LET pgs == [p \in DOMAIN chosen |-> [chosen[p] EXCEPT !.id = p, !.title = p]] IN
         \E order \in Perms(DOMAIN pgs) :
           LET g == build_from_state(KnowledgeGraphDefault, order, pgs, Corpus, None) IN
           /\ pages = pgs
           /\ nodes = g.nodes
           /\ edges = g.edges
           /\ adjacency = g.adjacency
    /\ blocks = Corpus
    /\ active_page_id = None
    /\ text = <<>>
    /\ lay = EmptyMap
    /\ canvas = [width |-> 0, height |-> 0]
    /\ steps = None
    /\ returned = <<>>
    /\ ret = NoRet
    /\ bfs = Idle

GetRelatedPages ==
    /\ ret = NoRet
    /\ \E page_id \in Ids :
         \E order \in Perms(IF page_id \in DOMAIN adjacency THEN adjacency[page_id] ELSE {}) :
           ret' = [op |-> "get_related_pages", page_id |-> page_id,
                   value |-> get_related_pages(adjacency, nodes, page_id, order)]
    /\ UNCHANGED <<graphVars, text, layoutVars, bfs>>

RelatedNext ==
    \/ GetRelatedPages
    \/ Return

RelatedSpec == RelatedInit /\ [][RelatedNext]_vars

-----------------------------------------------------------------------------
(* Tags: utils::extract_tags and KnowledgeGraph::extract_tags *)

\* the printable ASCII characters, from code 32 on (the grave accent, code 96,
\* by its name)
Ascii ==
    << " ", "!", "\"", "#", "$", "%", "&", "'", "(", ")", "*", "+",
       ",", "-", ".", "/", "0", "1", "2", "3", "4", "5", "6", "7",
       "8", "9", ":", ";", "<", "=", ">", "?", "@", "A", "B", "C",
       "D", "E", "F", "G", "H", "I", "J", "K", "L", "M", "N", "O",
       "P", "Q", "R", "S", "T", "U", "V", "W", "X", "Y", "Z", "[",
       "\\", "]", "^", "_", "grave", "a", "b", "c", "d", "e", "f", "g",
       "h", "i", "j", "k", "l", "m", "n", "o", "p", "q", "r", "s",
       "t", "u", "v", "w", "x", "y", "z", "{", "|", "}", "~" >>

\* the byte of a character
Ord(c) == 31 + (CHOOSE i \in DOMAIN Ascii : Ascii[i] = c)

\* the class [a-zA-Z0-9_-] of the tag regex
IsTagChar(c) ==
    LET o == Ord(c) IN
    \/ Ord("a") <= o /\ o <= Ord("z")
    \/ Ord("A") <= o /\ o <= Ord("Z")
    \/ Ord("0") <= o /\ o <= Ord("9")
    \/ c = "_"
    \/ c = "-"

\* the last place of the run of tag characters that holds place i
RECURSIVE TagRunEnd(_, _)
TagRunEnd(t, i) ==
    IF i < Len(t) /\ IsTagChar(t[i + 1]) THEN TagRunEnd(t, i + 1) ELSE i

\* captures_iter of #([a-zA-Z0-9_-]+) from place i on: group 1 of each match
RECURSIVE TagCaptures(_, _)
TagCaptures(t, i) ==
    IF i > Len(t) THEN <<>>
    ELSE IF t[i] = "#" /\ i < Len(t) /\ IsTagChar(t[i + 1])
    THEN LET e == TagRunEnd(t, i + 1) IN
         <<SubSeq(t, i + 1, e)>> \o TagCaptures(t, e + 1)
    ELSE TagCaptures(t, i + 1)

\* format!("#{}", tag)
HashTag(tag) == <<"#">> \o tag

\* utils::extract_tags
extract_tags(t) ==
    LET caps == TagCaptures(t, 1) IN [k \in DOMAIN caps |-> HashTag(caps[k])]

\* String's Ord: a < b, byte by byte
RECURSIVE StrLess(_, _)
StrLess(a, b) ==
    IF b = <<>> THEN FALSE
    ELSE IF a = <<>> THEN TRUE
    ELSE IF Head(a) = Head(b) THEN StrLess(Tail(a), Tail(b))
    ELSE Ord(Head(a)) < Ord(Head(b))

\* SortTags with the greatest string first
RECURSIVE SortTagsDescending(_)
SortTagsDescending(tags) ==
    IF tags = {} THEN <<>>
    ELSE LET last == CHOOSE x \in tags : \A y \in tags : x = y \/ StrLess(y, x) IN
         <<last>> \o SortTagsDescending(tags \ {last})

\* tags.into_iter().collect() followed by tags_vec.sort()
RECURSIVE SortTags(_)
SortTags(tags) ==
    IF tags = {} THEN <<>>
    ELSE LET first == CHOOSE x \in tags : \A y \in tags : x = y \/ StrLess(x, y) IN
         <<first>> \o SortTags(tags \ {first})

\* KnowledgeGraph::extract_tags
GraphExtractTags(pgs, blks) ==
    SortTags(UNION {{HashTag(tg) : tg \in Range(pgs[p].tags)} : p \in DOMAIN pgs}
             \cup UNION {{HashTag(cap) : cap \in Range(TagCaptures(blks[b].content, 1))} :
                            b \in DOMAIN blks})

\* the pieces the tagged texts are made of
TagSegments ==
    {<<"#">>, <<"a">>, <<"-">>, <<" ">>, <<"#", "b">>,
     <<"#", "a", "-", "_", "1", " ">>}

MaxTagSegments == 2

RECURSIVE TagTextsOf(_)
TagTextsOf(n) ==
    IF n = 0 THEN {<<>>}
    ELSE LET shorter == TagTextsOf(n - 1) IN
         shorter \cup {s \o seg : s \in shorter, seg \in TagSegments}

\* the second block of the snapshots:  #a    #b-a #a
TagBlock2Contents == {<<"#", "a">>, <<"#", "b", "-", "a", " ", "#", "a">>}

\* the tag lists of the page of the snapshots:  (none)   b a    B (empty)
TagPageTags == {<<>>, <<<<"b">>, <<"a">>>>, <<<<"B">>, <<>>>>}

TagInit ==
    /\ \E tg \in TagPageTags, present \in SUBSET {PageA} :
         pages = [p \in present |-> Page(p, p, tg, <<>>)]
    /\ \E content \in TagTextsOf(MaxTagSegments) :
         \/ blocks = (Block1 :> Block(Block1, content, None, <<>>))
         \/ \E second \in TagBlock2Contents :
              blocks = (Block1 :> Block(Block1, content, None, <<>>))
                       @@ (Block2 :> Block(Block2, second, None, <<>>))
    /\ active_page_id = None
    /\ nodes = EmptyMap
    /\ edges = <<>>
    /\ adjacency = EmptyMap
    /\ text = <<>>
    /\ lay = EmptyMap
    /\ canvas = [width |-> 0, height |-> 0]
    /\ steps = None
    /\ returned = <<>>
    /\ ret = NoRet
    /\ bfs = Idle

\* utils::extract_tags on the content of a block
ExtractTags ==
    /\ ret = NoRet
    /\ \E b \in DOMAIN blocks :
         ret' = [op |-> "extract_tags", input |-> blocks[b].content,
                 value |-> extract_tags(blocks[b].content)]
    /\ UNCHANGED <<graphVars, text, layoutVars, bfs>>

\* KnowledgeGraph::extract_tags on the snapshot
ExtractCorpusTags ==
    /\ ret = NoRet
    /\ ret' = [op |-> "graph_extract_tags", value |-> GraphExtractTags(pages, blocks)]
    /\ UNCHANGED <<graphVars, text, layoutVars, bfs>>

TagNext ==
    \/ ExtractTags
    \/ ExtractCorpusTags
    \/ Return

TagSpec == TagInit /\ [][TagNext]_vars

-----------------------------------------------------------------------------
(* find_path, one turn of its while loop at a time, on a built graph *)

PathBlockLists == {<<Block1>>, <<Block2>>, <<Block3>>, <<MissingBlock>>}

PathPageSets ==
    UNION {[present -> {Page(<<"p">>, <<"p">>, <<>>, bl) : bl \in PathBlockLists}] :
              present \in SUBSET PageIds}

PathInit ==
    /\ \E chosen \in PathPageSets :
         LET pgs == [p \in DOMAIN chosen |-> [chosen[p] EXCEPT !.id = p, !.title = p]] IN
         \E order \in Perms(DOMAIN pgs) :
           LET g == build_from_state(KnowledgeGraphDefault, order, pgs, Corpus, None) IN
           /\ pages = pgs
           /\ nodes = g.nodes
           /\ edges = g.edges
           /\ adjacency = g.adjacency
    /\ blocks = Corpus
    /\ active_page_id = None
    /\ text = <<>>
    /\ lay = EmptyMap
    /\ canvas = [width |-> 0, height |-> 0]
    /\ steps = None
    /\ returned = <<>>
    /\ ret = NoRet
    /\ bfs = Idle

\* find_path up to its while loop: the guard, then the queue and the visited
\* set holding start
FindPathStart ==
    /\ ret = NoRet
    /\ ~bfs.running
    /\ \E start \in Ids, end \in Ids :
         IF start \notin DOMAIN nodes \/ end \notin DOMAIN nodes
         THEN /\ ret' = [op |-> "find_path", start |-> start, end |-> end, value |-> None]
              /\ bfs' = Idle
         ELSE /\ bfs' = [running |-> TRUE, start |-> start, end |-> end,
                         queue |-> <<<<start, <<start>>>>>>, visited |-> {start}]
              /\ ret' = NoRet
    /\ UNCHANGED <<graphVars, text, layoutVars>>

\* one turn of `while let Some((current, path)) = queue.pop_front()`, or the
\* return of None once the queue is empty
FindPathStep ==
    /\ bfs.running
    /\ IF bfs.queue = <<>>
       THEN /\ ret' = [op |-> "find_path", start |-> bfs.start, end |-> bfs.end,
                       value |-> None]
            /\ bfs' = Idle
       ELSE LET current == Head(bfs.queue)[1]
                path == Head(bfs.queue)[2]
                popped == [queue |-> Tail(bfs.queue), visited |-> bfs.visited]
            IN IF current = bfs.end
               THEN /\ ret' = [op |-> "find_path", start |-> bfs.start, end |-> bfs.end,
                               value |-> Some(path)]
                    /\ bfs' = Idle
               ELSE /\ ret' = NoRet
                    /\ IF current \in DOMAIN adjacency
                       THEN \E order \in Perms(adjacency[current]) :
                              LET search == VisitNeighbors(order, path, popped) IN
                              bfs' = [bfs EXCEPT !.queue = search.queue,
                                                 !.visited = search.visited]
                       ELSE bfs' = [bfs EXCEPT !.queue = popped.queue]
    /\ UNCHANGED <<graphVars, text, layoutVars>>

PathNext ==
    \/ FindPathStart
    \/ FindPathStep
    \/ Return

\* the loop runs on: a call that has started takes its next turn
PathSpec == PathInit /\ [][PathNext]_vars /\ WF_vars(FindPathStep)

-----------------------------------------------------------------------------
(* AppState: create_block and delete_block *)

\* Block { parent_id, ..Default::default() } with the id Uuid::new_v4() drew
NewBlock(id, parent_id) == Block(id, <<>>, parent_id, <<>>)

\* AppState::create_block, id being the new block's id
create_block(blks, id, parent_id) ==
    LET inserted == (id :> NewBlock(id, parent_id)) @@ blks IN
    IF parent_id # None /\ parent_id[1] \in DOMAIN inserted
    THEN [inserted EXCEPT ![parent_id[1]].children = Append(@, id)]
    ELSE inserted

\* delete_block removing the block and leaving its children in the map
delete_block_shallow(blks, block_id) ==
    IF block_id \in DOMAIN blks
    THEN LET block == blks[block_id]
             unlisted ==
                 IF block.parent_id # None /\ block.parent_id[1] \in DOMAIN blks
                 THEN [blks EXCEPT ![block.parent_id[1]].children =
                                       SelectSeq(@, LAMBDA id : id # block_id)]
                 ELSE blks
         IN [k \in DOMAIN unlisted \ {block_id} |-> unlisted[k]]
    ELSE blks

RECURSIVE delete_block(_, _)
RECURSIVE DeleteChildren(_, _)

\* `for child_id in &block.children { self.delete_block(child_id) }`
DeleteChildren(blks, children) ==
    IF children = <<>> THEN blks
    ELSE DeleteChildren(delete_block(blks, Head(children)), Tail(children))

\* AppState::delete_block
delete_block(blks, block_id) ==
    IF block_id \in DOMAIN blks
    THEN LET block == blks[block_id]
             childless == DeleteChildren(blks, block.children)
             unlisted ==
                 IF block.parent_id # None /\ block.parent_id[1] \in DOMAIN childless
                 THEN [childless EXCEPT ![block.parent_id[1]].children =
                                            SelectSeq(@, LAMBDA id : id # block_id)]
                 ELSE childless
         IN [k \in DOMAIN unlisted \ {block_id} |-> unlisted[k]]
    ELSE blks

\* the ids Uuid::new_v4() can draw, and the ids handed to the two calls
BlockIds == {Block1, Block2, Block3, MissingBlock}

\* the ids the store holds or names: Uuid::new_v4() draws none of them, nor the
\* id its caller has just handed in
KnownIds(blks) ==
    DOMAIN blks \cup {blks[k].parent_id[1] : k \in {k \in DOMAIN blks : blks[k].parent_id # None}}

StoreInit ==
    /\ pages = EmptyMap
    /\ blocks = EmptyMap
    /\ active_page_id = None
    /\ nodes = EmptyMap
    /\ edges = <<>>
    /\ adjacency = EmptyMap
    /\ text = <<>>
    /\ lay = EmptyMap
    /\ canvas = [width |-> 0, height |-> 0]
    /\ steps = None
    /\ returned = <<>>
    /\ ret = NoRet
    /\ bfs = Idle

CreateBlock ==
    /\ ret = NoRet
    /\ \E parent_id \in {None} \cup {Some(b) : b \in BlockIds} :
         \E id \in BlockIds \ (KnownIds(blocks) \cup Range(parent_id)) :
         /\ blocks' = create_block(blocks, id, parent_id)
         /\ ret' = [op |-> "create_block", parent_id |-> parent_id, value |-> id]
    /\ UNCHANGED <<pages, active_page_id, nodes, edges, adjacency, text, layoutVars, bfs>>

DeleteBlock ==
    /\ ret = NoRet
    /\ \E block_id \in BlockIds :
         /\ blocks' = delete_block(blocks, block_id)
         /\ ret' = [op |-> "delete_block", block_id |-> block_id]
    /\ UNCHANGED <<pages, active_page_id, nodes, edges, adjacency, text, layoutVars, bfs>>

StoreNext ==
    \/ CreateBlock
    \/ DeleteBlock
    \/ Return

StoreSpec == StoreInit /\ [][StoreNext]_vars

-----------------------------------------------------------------------------
(* Properties of the graph *)

Neighbors(adj, a) == IF a \in DOMAIN adj THEN adj[a] ELSE {}

\* the ids within k edges of s in the adjacency index
RECURSIVE ReachWithin(_, _, _)
ReachWithin(adj, s, k) ==
    IF k = 0 THEN {s}
    ELSE LET near == ReachWithin(adj, s, k - 1) IN
         near \cup UNION {Neighbors(adj, a) : a \in near}

AllIds(adj) == DOMAIN adj \cup UNION {adj[a] : a \in DOMAIN adj}

Reachable(adj, s) == ReachWithin(adj, s, Cardinality(AllIds(adj)))

\* C1: the adjacency index is symmetric after any sequence of builds: b is a
\* neighbour of a exactly when a is a neighbour of b, dangling targets included
C1_AdjacencySymmetric ==
    \A a \in AllIds(adjacency) : \A b \in AllIds(adjacency) :
        (b \in Neighbors(adjacency, a)) <=> (a \in Neighbors(adjacency, b))

\* a page with two neighbours, one of them a dangling target
C1_Witness ==
    /\ Dangling \in DOMAIN adjacency
    /\ \E a \in DOMAIN nodes : Cardinality(Neighbors(adjacency, a)) >= 2
                               /\ Dangling \in adjacency[a]

\* C2: a path find_path returns between two nodes starts at start, ends at end,
\* steps only along the adjacency index and has the fewest edges possible;
\* find_path(a, a) = [a]; and when B is the one id adjacent to both A and C,
\* which are not adjacent themselves, find_path(A, C) = [A, B, C]
C2_PathShortest ==
    (ret.op = "find_path" /\ ret.start \in DOMAIN nodes /\ ret.end \in DOMAIN nodes) =>
        /\ ret.value # None =>
             LET path == ret.value[1] IN
             /\ Len(path) >= 1
             /\ path[1] = ret.start
             /\ path[Len(path)] = ret.end
             /\ \A i \in 1..(Len(path) - 1) : path[i + 1] \in Neighbors(adjacency, path[i])
             /\ Len(path) >= 2 => ret.end \notin ReachWithin(adjacency, ret.start, Len(path) - 2)
        /\ ret.start = ret.end => ret.value = Some(<<ret.start>>)
        /\ \A mid \in AllIds(adjacency) :
             ( /\ ret.start # ret.end
               /\ ret.end \notin Neighbors(adjacency, ret.start)
               /\ Neighbors(adjacency, ret.start) \cap Neighbors(adjacency, ret.end) = {mid} )
             => ret.value = Some(<<ret.start, mid, ret.end>>)

\* find_path(A, C) = [A, B, C] on three pages, A linking to B and B to C
C2_Witness ==
    /\ ret.op = "find_path"
    /\ DOMAIN nodes = PageIds
    /\ ret.start = PageA /\ ret.end = PageC
    /\ PageC \notin Neighbors(adjacency, PageA)
    /\ ret.value = Some(<<PageA, PageB, PageC>>)

\* C3: find_path returns none exactly when start or end has no node or end
\* cannot be reached from start through the adjacency index
C3_NoneIffAbsentOrUnreachable ==
    ret.op = "find_path" =>
        ( ret.value = None <=>
            \/ ret.start \notin DOMAIN nodes
            \/ ret.end \notin DOMAIN nodes
            \/ ret.end \notin Reachable(adjacency, ret.start) )

\* none returned for two nodes that both have neighbours but no connection
C3_Witness ==
    /\ ret.op = "find_path"
    /\ ret.value = None
    /\ ret.start \in DOMAIN nodes /\ ret.end \in DOMAIN nodes
    /\ Neighbors(adjacency, ret.start) # {} /\ Neighbors(adjacency, ret.end) # {}

\* the wikilink occurrences with target p: (page, place in its block list,
\* place among the block's links)
LinkOccurrences(p) ==
    UNION {UNION {{<<q, i, k>> :
                      k \in {k \in DOMAIN GraphExtractWikilinks(blocks[pages[q].blocks[i]].content) :
                                GraphExtractWikilinks(blocks[pages[q].blocks[i]].content)[k] = p}} :
                  i \in {i \in DOMAIN pages[q].blocks : pages[q].blocks[i] \in DOMAIN blocks}} :
           q \in DOMAIN pages}

\* C4: a node's link_count is the number of wikilink occurrences targeting its
\* id over the blocks the pages list directly, repeats and self-links included
C4_LinkCount ==
    \A p \in DOMAIN nodes : nodes[p].link_count = Cardinality(LinkOccurrences(p))

\* page a links itself twice and nothing else does, page c lists a block the
\* map lacks, and the block linking to c is listed by no page
C4_Witness ==
    /\ PageA \in DOMAIN nodes /\ PageC \in DOMAIN nodes
    /\ nodes[PageA].link_count = 2
    /\ PageA \notin DOMAIN adjacency
    /\ pages[PageC].blocks = <<MissingBlock>>
    /\ \A q \in DOMAIN pages : Block3 \notin Range(pages[q].blocks)
    /\ nodes[PageC].link_count = 0

PositiveNodes == {p \in DOMAIN nodes : nodes[p].link_count > 0}

\* C5: get_hub_pages(limit) returns min(limit, number of positive nodes) distinct
\* nodes of the graph, each with link_count > 0, in non-increasing order of
\* link_count, and leaves out no node with a greater link_count than a returned one
C5_HubPages ==
    ret.op = "get_hub_pages" =>
        LET hubs == ret.value
            listed == {hubs[i][1].id : i \in DOMAIN hubs}
        IN /\ \A i \in DOMAIN hubs :
                /\ hubs[i][1].id \in DOMAIN nodes
                /\ hubs[i][1] = nodes[hubs[i][1].id]
                /\ hubs[i][2] = hubs[i][1].link_count
                /\ hubs[i][2] > 0
           /\ \A i, j \in DOMAIN hubs : i < j =>
                hubs[i][2] >= hubs[j][2] /\ hubs[i][1].id # hubs[j][1].id
           /\ Len(hubs) = IF ret.limit < Cardinality(PositiveNodes)
                          THEN ret.limit ELSE Cardinality(PositiveNodes)
           /\ \A p \in DOMAIN nodes \ listed : \A i \in DOMAIN hubs :
                nodes[p].link_count <= hubs[i][2]

\* a limit that cuts the list: two hubs of different counts returned, a third
\* one and a zero-count node left out
C5_Witness ==
    /\ ret.op = "get_hub_pages"
    /\ ret.limit = 2
    /\ Len(ret.value) = 2
    /\ ret.value[1][2] > ret.value[2][2]
    /\ Cardinality(PositiveNodes) = 3

\* C6: get_stats reports no isolated page on a graph of at most one node, and
\* the number of nodes with link_count = 0 on a larger one
C6_IsolatedPages ==
    ret.op = "get_stats" =>
        /\ Cardinality(DOMAIN nodes) <= 1 => ret.value.isolated_pages = 0
        /\ Cardinality(DOMAIN nodes) > 1 =>
             ret.value.isolated_pages =
                Cardinality({p \in DOMAIN nodes : nodes[p].link_count = 0})

\* the stats of a graph whose only node has link_count = 0
C6_Witness ==
    /\ ret.op = "get_stats"
    /\ Cardinality(DOMAIN nodes) = 1
    /\ \A p \in DOMAIN nodes : nodes[p].link_count = 0
    /\ ret.value.isolated_pages = 0

-----------------------------------------------------------------------------
(* Properties of the text utilities *)

\* t[s..e] is "[[", one or more characters other than "]", "]]"
IsSpan(t, s, e) ==
    /\ 1 <= s /\ s + 4 <= e /\ e <= Len(t)
    /\ t[s] = "[" /\ t[s + 1] = "["
    /\ t[e - 1] = "]" /\ t[e] = "]"
    /\ \A i \in (s + 2)..(e - 2) : t[i] # "]"

Spans(t) == {sp \in (1..Len(t)) \X (1..Len(t)) : IsSpan(t, sp[1], sp[2])}

\* chosen holds the spans met reading left to right, none overlapping another:
\* a span is left out exactly when it starts inside a chosen one
IsLeftmostChoice(t, chosen) ==
    \A sp \in Spans(t) :
        sp \in chosen <=> ~\E c \in chosen : c[1] < sp[1] /\ sp[1] <= c[2]

\* r is t without its leading and trailing whitespace
IsTrimOf(t, r) ==
    \E i \in 1..(Len(t) + 1), j \in 0..Len(t) :
        /\ r = SubSeq(t, i, j)
        /\ \A k \in 1..(i - 1) : IsWhitespace(t[k])
        /\ \A k \in (j + 1)..Len(t) : IsWhitespace(t[k])
        /\ i <= j => ~IsWhitespace(t[i]) /\ ~IsWhitespace(t[j])

\* pair is the (target, alias) of the text between the brackets
IsPairOf(inner, pair) ==
    IF \E i \in DOMAIN inner : inner[i] = "|"
    THEN \E i \in DOMAIN inner :
            /\ inner[i] = "|"
            /\ \A j \in 1..(i - 1) : inner[j] # "|"
            /\ IsTrimOf(SubSeq(inner, 1, i - 1), pair.target)
            /\ pair.alias # None
            /\ IsTrimOf(SubSeq(inner, i + 1, Len(inner)), pair.alias[1])
    ELSE IsTrimOf(inner, pair.target) /\ pair.alias = None

\* C9: extract_wikilinks returns one (target, alias) pair per non-overlapping
\* [[...]] span, in order of occurrence, duplicates kept: the target is the
\* trimmed text before the first '|', the alias the trimmed text after it or
\* absent; a text without a complete span gives the empty sequence
C9_ExtractWikilinks ==
    ret.op = "extract_wikilinks" =>
        \E chosen \in SUBSET Spans(text) :
            /\ IsLeftmostChoice(text, chosen)
            /\ Len(ret.value) = Cardinality(chosen)
            /\ \A sp \in chosen :
                 LET k == 1 + Cardinality({c \in chosen : c[1] < sp[1]}) IN
                 IsPairOf(SubSeq(text, sp[1] + 2, sp[2] - 2), ret.value[k])

\* two links to the same target, the first with an alias, the second without
C9_Witness ==
    /\ ret.op = "extract_wikilinks"
    /\ Len(ret.value) = 2
    /\ ret.value[1].target = ret.value[2].target
    /\ ret.value[1].alias = Some(<<"b">>)
    /\ ret.value[2].alias = None

-----------------------------------------------------------------------------
(* Properties of search_pages *)

\* hay contains needle, letter case set aside
ContainsIgnoringCase(hay, needle) ==
    \E off \in 0..(Len(hay) - Len(needle)) :
        \A k \in 1..Len(needle) : LowerChar(hay[off + k]) = LowerChar(needle[k])

\* the places of page p's block list whose block holds the query
MatchingListings(p, query) ==
    {i \in DOMAIN pages[p].blocks :
        /\ pages[p].blocks[i] \in DOMAIN blocks
        /\ ContainsIgnoringCase(blocks[pages[p].blocks[i]].content, query)}

\* C10: a page is in the result of search_pages exactly when its title or one
\* of its listed blocks contains the query, case set aside; its score is 10 for
\* a matching title plus 2 per matching listed block, so at least 10 when the
\* title matches
C10_SearchPages ==
    ret.op = "search_pages" =>
        LET found == ret.value IN
        /\ \A p \in DOMAIN pages :
             (\E i \in DOMAIN found : found[i].page_id = p)
             <=> \/ ContainsIgnoringCase(pages[p].title, ret.query)
                 \/ MatchingListings(p, ret.query) # {}
        /\ \A i, j \in DOMAIN found : i # j => found[i].page_id # found[j].page_id
        /\ \A i \in DOMAIN found :
             LET p == found[i].page_id IN
             /\ p \in DOMAIN pages
             /\ found[i].score =
                   (IF ContainsIgnoringCase(pages[p].title, ret.query) THEN 10 ELSE 0)
                   + 2 * Cardinality(MatchingListings(p, ret.query))
             /\ ContainsIgnoringCase(pages[p].title, ret.query) => found[i].score >= 10

\* a page found by its title and two of its blocks, in another letter case than
\* the query's, and a page with no match left out
C10_Witness ==
    /\ ret.op = "search_pages"
    /\ ret.query = <<"O">>
    /\ \E i \in DOMAIN ret.value : ret.value[i].score = 14
    /\ \E p \in DOMAIN pages : \A i \in DOMAIN ret.value : ret.value[i].page_id # p

-----------------------------------------------------------------------------
(* Properties of the layout *)

\* v is a number of [50, dimension - 50]
InCanvas(v, dimension) ==
    /\ v.k = "num"
    /\ 50 * Scale <= v.v
    /\ v.v <= (dimension - 50) * Scale

\* C7: every (x, y) returned by calculate_layout after its 100 steps has
\* 50 <= x <= width - 50 and 50 <= y <= height - 50
C7_ReturnedInBounds ==
    \A i \in DOMAIN returned : \A id \in DOMAIN returned[i] :
        /\ InCanvas(returned[i][id][1], canvas.width)
        /\ InCanvas(returned[i][id][2], canvas.height)

\* C8: two runs of calculate_layout on the same graph and the same canvas
\* return the same coordinates for every node
C8_SameLayoutTwice ==
    \A i, j \in DOMAIN returned : returned[i] = returned[j]

\* C20: in every simulation step the forces are finite, no division by zero
\* taking place: the velocities and positions of all nodes stay finite, two
\* nodes at the same position included
C20_FiniteForces ==
    \A id \in DOMAIN lay :
        /\ lay[id].x.k = "num"
        /\ lay[id].y.k = "num"
        /\ lay[id].vx.k = "num"
        /\ lay[id].vy.k = "num"

\* C11: the list search_pages returns is in non-increasing order of score
C11_SortedByScore ==
    ret.op = "search_pages" =>
        \A i \in 1..(Len(ret.value) - 1) : ret.value[i].score >= ret.value[i + 1].score

\* three pages found, with three different scores
C11_Witness ==
    /\ ret.op = "search_pages"
    /\ Len(ret.value) = 3
    /\ ret.value[1].score > ret.value[2].score
    /\ ret.value[2].score > ret.value[3].score

-----------------------------------------------------------------------------
(* Properties of truncate_text *)

\* C12: truncate_text returns a text of at most max_length characters as it
\* is; a longer one comes back ending in "..." and no longer than max_length
C12_TruncateText ==
    ret.op = "truncate_text" =>
        IF Len(text) <= ret.max_length THEN ret.value = text
        ELSE /\ Len(ret.value) >= 3
             /\ SubSeq(ret.value, Len(ret.value) - 2, Len(ret.value)) = <<".", ".", ".">>
             /\ Len(ret.value) <= ret.max_length

-----------------------------------------------------------------------------
(* Properties of get_backlinks *)

\* needle is a contiguous part of hay once hay is put in lower case
OccursInLowered(hay, needle) ==
    \E off \in 0..(Len(hay) - Len(needle)) :
        \A k \in 1..Len(needle) : LowerChar(hay[off + k]) = needle[k]

\* the title get_backlinks looks for: the lower-cased title of page_id, or the
\* id as it is when there is no such page
LinkedTitle(page_id) ==
    IF page_id \in DOMAIN pages
    THEN [i \in DOMAIN pages[page_id].title |-> LowerChar(pages[page_id].title[i])]
    ELSE page_id

\* the block listed at place i of page p links to title t
ListingLinks(p, i, t) ==
    /\ pages[p].blocks[i] \in DOMAIN blocks
    /\ LET content == blocks[pages[p].blocks[i]].content IN
       \/ OccursInLowered(content, <<"[", "[">> \o t \o <<"]", "]">>)
       \/ OccursInLowered(content, <<"[", "[">> \o t \o <<"|">>)

\* C13: get_backlinks(page_id) returns one Backlink per block listing, on a
\* page other than page_id, whose lower-cased content contains "[[t]]" or
\* "[[t|", t being the lower-cased title of page_id or the raw id of a missing
\* page; no record has page_id as its source and every context is the whole
\* content of the block
C13_Backlinks ==
    ret.op = "get_backlinks" =>
        LET found == ret.value
            t == LinkedTitle(ret.page_id)
        IN
        /\ \A k \in DOMAIN found :
             /\ found[k].page_id \in DOMAIN pages
             /\ found[k].page_id # ret.page_id
             /\ found[k].block_id \in DOMAIN blocks
             /\ found[k].context = blocks[found[k].block_id].content
             /\ found[k].page_title = pages[found[k].page_id].title
        /\ \A p \in DOMAIN pages \ {ret.page_id} :
             LET listings == {i \in DOMAIN pages[p].blocks : ListingLinks(p, i, t)}
                 records == {k \in DOMAIN found : found[k].page_id = p}
             IN /\ Cardinality(records) = Cardinality(listings)
                /\ \A k \in records :
                     LET nth == Cardinality({j \in records : j <= k})
                         i == CHOOSE i \in listings :
                                 Cardinality({j \in listings : j <= i}) = nth
                     IN found[k].block_id = pages[p].blocks[i]

\* backlinks to a page titled Fo: one record for a block holding both forms,
\* two for a block listed twice, none from the page itself although it lists
\* a linking block
C13_Witness ==
    /\ ret.op = "get_backlinks"
    /\ ret.page_id = PageA
    /\ PageA \in DOMAIN pages
    /\ pages[PageA].title = <<"F", "o">>
    /\ pages[PageA].blocks = <<Block1>>
    /\ PageB \in DOMAIN pages /\ pages[PageB].blocks = <<Block1, Block2>>
    /\ PageC \in DOMAIN pages /\ pages[PageC].blocks = <<Block2, Block2>>
    /\ Len(ret.value) = 4

-----------------------------------------------------------------------------
(* Properties of get_related_pages *)

\* the tags two ids share, none when either has no node
SharedTags(p, q) ==
    IF p \in DOMAIN nodes /\ q \in DOMAIN nodes
    THEN {tg \in Range(nodes[p].tags) : \E i \in DOMAIN nodes[q].tags : nodes[q].tags[i] = tg}
    ELSE {}

\* the ids adjacent to both p and q
SharedNeighbors(p, q) ==
    {x \in AllIds(adjacency) : /\ p \in DOMAIN adjacency /\ x \in adjacency[p]
                    /\ q \in DOMAIN adjacency /\ x \in adjacency[q]}

\* C14: get_related_pages(page_id) returns one (neighbor, score) entry per
\* adjacency neighbor of page_id, none without an adjacency entry, with
\* score = 1 + shared neighbors + 2 x shared tags, in non-increasing order of
\* score
C14_RelatedPages ==
    ret.op = "get_related_pages" =>
        LET found == ret.value
            p == ret.page_id
            neighbors == IF p \in DOMAIN adjacency THEN adjacency[p] ELSE {}
        IN
        /\ Len(found) = Cardinality(neighbors)
        /\ {found[k][1] : k \in DOMAIN found} = neighbors
        /\ \A k \in DOMAIN found :
             found[k][2] = 1 + Cardinality(SharedNeighbors(p, found[k][1]))
                             + 2 * Cardinality(SharedTags(p, found[k][1]))
        /\ \A k \in 1..(Len(found) - 1) : found[k][2] >= found[k + 1][2]

\* three neighbors: a page sharing two neighbors and a tag (score 5), a page
\* sharing neither tag nor neighbor beyond them, and the dangling target
C14_Witness ==
    /\ ret.op = "get_related_pages"
    /\ ret.page_id = PageA
    /\ Len(ret.value) = 3
    /\ ret.value[1] = <<PageB, 5>>
    /\ \E k \in DOMAIN ret.value : ret.value[k][1] = Dangling
    /\ SharedTags(PageA, PageC) = {}

-----------------------------------------------------------------------------
(* Properties of the tag extractors *)

\* a comes before b in the lexicographic order of the bytes
LexLess(a, b) ==
    \E k \in 1..Len(b) :
        /\ k <= Len(a) + 1
        /\ \A i \in 1..(k - 1) : a[i] = b[i]
        /\ k = Len(a) + 1 \/ Ord(a[k]) < Ord(b[k])

\* the places of t where a tag begins: a '#' with a tag character behind it
TagStarts(t) == {s \in DOMAIN t : t[s] = "#" /\ s < Len(t) /\ IsTagChar(t[s + 1])}

\* the tag that begins at place s of t, its '#' included
TagAt(t, s) ==
    LET e == CHOOSE e \in (s + 1)..Len(t) :
                 /\ \A i \in (s + 1)..e : IsTagChar(t[i])
                 /\ e = Len(t) \/ ~IsTagChar(t[e + 1])
    IN SubSeq(t, s, e)

\* C15: the corpus-level extract_tags returns, in strictly ascending
\* lexicographic order, exactly the '#'+tag of every tag listed on a page or
\* matched in a block's content; the per-text extract_tags returns the matches
\* in order of occurrence, duplicates kept
C15_ExtractTags ==
    /\ ret.op = "graph_extract_tags" =>
         /\ \A k \in 1..(Len(ret.value) - 1) : LexLess(ret.value[k], ret.value[k + 1])
         /\ Range(ret.value) =
               UNION {{<<"#">> \o pages[p].tags[i] : i \in DOMAIN pages[p].tags} :
                          p \in DOMAIN pages}
               \cup UNION {{TagAt(blocks[b].content, s) : s \in TagStarts(blocks[b].content)} :
                              b \in DOMAIN blocks}
    /\ ret.op = "extract_tags" =>
         /\ Len(ret.value) = Cardinality(TagStarts(ret.input))
         /\ \A s \in TagStarts(ret.input) :
              ret.value[Cardinality({r \in TagStarts(ret.input) : r <= s})] = TagAt(ret.input, s)

\* a snapshot whose second block names #a twice over its two tags and whose
\* page lists the tags B and the empty one: the corpus-level list is sorted
\* and free of duplicates where the per-text list of a block is not
C15_Witness ==
    /\ ret.op = "graph_extract_tags"
    /\ blocks[Block1].content = <<"#", "b", "#", "a", "-", "_", "1", " ">>
    /\ Block2 \in DOMAIN blocks
    /\ extract_tags(blocks[Block2].content) = <<<<"#", "b", "-", "a">>, <<"#", "a">>>>
    /\ ret.value = << <<"#">>, <<"#", "B">>, <<"#", "a">>, <<"#", "a", "-", "_", "1">>,
                      <<"#", "b">>, <<"#", "b", "-", "a">> >>

-----------------------------------------------------------------------------
(* Properties of build_from_state *)

\* how often each edge occurs in the edge list
EdgeBag(es) == [ed \in Range(es) |-> Cardinality({i \in DOMAIN es : es[i] = ed})]

\* C16: build_from_state rebuilds the graph wholesale: after any sequence of
\* builds the node map, the multiset of edges and the adjacency index are those
\* of a new graph built once from the arguments of the last call
C16_WholesaleRebuild ==
    \A order \in Perms(DOMAIN pages) :
        LET fresh == build_from_state(KnowledgeGraphDefault, order,
                                      pages, blocks, active_page_id)
        IN /\ nodes = fresh.nodes
           /\ adjacency = fresh.adjacency
           /\ EdgeBag(edges) = EdgeBag(fresh.edges)

\* a graph several builds old: two pages, one of them linking, and an active
\* id that names no page of the last snapshot
C16_Witness ==
    /\ DOMAIN pages = {PageB, PageC}
    /\ active_page_id = Some(PageA)
    /\ pages[PageB].blocks = <<Block2, Block3>>
    /\ pages[PageC].blocks = <<Block1>>
    /\ Len(edges) = 4
    /\ DOMAIN nodes = {PageB, PageC}

\* the edges of the list that lead from source to target
EdgesFromTo(source, target) ==
    {i \in DOMAIN edges : edges[i].source = source /\ edges[i].target = target}

\* C17: the edge list holds one directed edge of weight 1 per wikilink
\* occurrence in a directly listed block whose target is not the linking page,
\* repeated links giving repeated edges; no edge is a self-loop, every source
\* has a node, and get_stats reports the length of the list as total_links
C17_EdgeList ==
    /\ \A i \in DOMAIN edges :
         /\ edges[i].weight = 1
         /\ edges[i].source # edges[i].target
         /\ edges[i].source \in DOMAIN nodes
         /\ edges[i].target \in Ids
    /\ \A source \in DOMAIN pages :
         \A target \in Ids \ {source} :
            Cardinality(EdgesFromTo(source, target))
               = Cardinality({o \in LinkOccurrences(target) : o[1] = source})
    /\ ret.op = "get_stats" => ret.value.total_links = Len(edges)

\* get_stats after a build in which page a links itself twice (no edge), page
\* b links a twice (two equal edges) and page c links b, itself and the
\* dangling d
C17_Witness ==
    /\ ret.op = "get_stats"
    /\ ret.value.total_links = 4
    /\ PageA \in DOMAIN pages /\ pages[PageA].blocks = <<Block1>>
    /\ PageC \in DOMAIN pages /\ pages[PageC].blocks = <<Block2, Block3>>
    /\ Cardinality(EdgesFromTo(PageB, PageA)) = 2
    /\ Cardinality(EdgesFromTo(PageC, Dangling)) = 1

\* the edge list joins a and b, in either direction
Joined(a, b) ==
    \E i \in DOMAIN edges :
        \/ edges[i].source = a /\ edges[i].target = b
        \/ edges[i].source = b /\ edges[i].target = a

\* C18: the adjacency index is the symmetric closure of the edge list: b is in
\* adjacency[a] exactly when the list holds (a, b) or (b, a); no id is its own
\* neighbor, and an id of the index without a node is a dangling link target
\* with an adjacency entry of its own
C18_AdjacencyIsClosure ==
    /\ \A a \in Ids \cup AllIds(adjacency) :
         \A b \in Ids \cup AllIds(adjacency) :
            (a \in DOMAIN adjacency /\ b \in adjacency[a]) <=> Joined(a, b)
    /\ \A a \in DOMAIN adjacency : a \notin adjacency[a]
    /\ \A x \in AllIds(adjacency) :
         x \notin DOMAIN nodes =>
            /\ x \in DOMAIN adjacency
            /\ \E i \in DOMAIN edges : edges[i].target = x

\* page a links only itself and is in no adjacency set, page c links the
\* dangling d, which has an entry but no node, and b: c is a neighbor of b
\* through the one edge (c, b)
C18_Witness ==
    /\ DOMAIN nodes = PageIds
    /\ pages[PageA].blocks = <<Block1>>
    /\ pages[PageB].blocks = <<MissingBlock>>
    /\ PageA \notin AllIds(adjacency)
    /\ Dangling \in DOMAIN adjacency /\ adjacency[Dangling] = {PageC}
    /\ PageB \in DOMAIN adjacency /\ adjacency[PageB] = {PageC}
    /\ adjacency[PageC] = {PageB, Dangling}

\* C19: after build_from_state the nodes are keyed by the pages' ids, one node
\* per page and none for a dangling target; a node is active exactly when its
\* id is active_page_id, so at most one is, and none when active_page_id is
\* absent or names no page
C19_NodesAndActive ==
    /\ DOMAIN nodes = DOMAIN pages
    /\ \A p \in DOMAIN nodes :
         /\ nodes[p].id = p
         /\ nodes[p].is_active <=> active_page_id = Some(p)
    /\ Cardinality({p \in DOMAIN nodes : nodes[p].is_active}) <= 1
    /\ (active_page_id = None \/ active_page_id[1] \notin DOMAIN pages)
          => \A p \in DOMAIN nodes : ~nodes[p].is_active

\* page a is open and active, page c is not, and the dangling d, linked from
\* c, has no node
C19_Witness ==
    /\ active_page_id = Some(PageA)
    /\ DOMAIN nodes = {PageA, PageC}
    /\ nodes[PageA].is_active
    /\ ~nodes[PageC].is_active
    /\ Dangling \in DOMAIN adjacency

\* C23: every id on a path find_path returns is a key of the node set
C23_PathThroughNodes ==
    (ret.op = "find_path" /\ ret.value # None) =>
        \A i \in DOMAIN ret.value[1] : ret.value[1][i] \in DOMAIN nodes

\* C24: in a graph of more than one node a node with link_count = 0 has no
\* adjacency neighbor and a node with link_count > 0 has at least one
C24_StatsAgreeWithAdjacency ==
    Cardinality(DOMAIN nodes) > 1 =>
        \A p \in DOMAIN nodes :
            /\ nodes[p].link_count = 0 => Neighbors(adjacency, p) = {}
            /\ nodes[p].link_count > 0 => Neighbors(adjacency, p) # {}

-----------------------------------------------------------------------------
(* Properties of the search loop of find_path *)

\* what one turn of the loop may do to the queue and the visited set: the
\* entries behind the head stay, and every entry put behind them carries an id
\* that was not visited, is visited from now on and is put there once
EnqueuesOnlyUnvisited ==
    LET kept == Len(bfs.queue) - 1 IN
    /\ Len(bfs'.queue) >= kept
    /\ SubSeq(bfs'.queue, 1, kept) = Tail(bfs.queue)
    /\ bfs.visited \subseteq bfs'.visited
    /\ \A i \in (kept + 1)..Len(bfs'.queue) :
         /\ bfs'.queue[i][1] \notin bfs.visited
         /\ bfs'.queue[i][1] \in bfs'.visited
         /\ \A j \in (kept + 1)..Len(bfs'.queue) :
              j # i => bfs'.queue[j][1] # bfs'.queue[i][1]

\* C21: find_path terminates on every graph, cycles included: an id is marked
\* visited when it is enqueued and never enqueued again, the search returns the
\* path of the target as soon as the target is dequeued, and a returned path
\* holds no id twice
C21_FindPathTerminates ==
    /\ [][ /\ (bfs.running /\ bfs'.running) => EnqueuesOnlyUnvisited
           /\ (bfs.running /\ bfs.queue # <<>> /\ Head(bfs.queue)[1] = bfs.end)
                 => (~bfs'.running /\ ret'.value = Some(Head(bfs.queue)[2])) ]_vars
    /\ [](ret.op = "find_path" /\ ret.value # None =>
            \A i, j \in DOMAIN ret.value[1] :
                i # j => ret.value[1][i] # ret.value[1][j])
    /\ bfs.running ~> ~bfs.running

\* a path found around the cycle a - c - b - d - a, d being dangling
C21_Witness ==
    /\ ret.op = "find_path"
    /\ ret.value = Some(<<PageA, PageC, PageB>>)
    /\ Dangling \in adjacency[PageA] \cap adjacency[PageB]
    /\ PageC \in adjacency[PageA] \cap adjacency[PageB]

-----------------------------------------------------------------------------
(* Properties of delete_block *)

\* the blocks reached from b through children lists in at most k steps
RECURSIVE DescendantsWithin(_, _, _)
DescendantsWithin(blks, b, k) ==
    IF k = 0 \/ b \notin DOMAIN blks THEN {b}
    ELSE {b} \cup UNION {DescendantsWithin(blks, blks[b].children[i], k - 1) :
                            i \in DOMAIN blks[b].children}

Descendants(blks, b) == DescendantsWithin(blks, b, Cardinality(DOMAIN blks))

\* C22: delete_block(b) on a store that holds b removes b and every block
\* reached from b through children lists, takes b out of the children of its
\* former parent and leaves every other block as it was; on an id the map
\* lacks it changes nothing
C22_DeleteBlock ==
    [][ret'.op = "delete_block" =>
          LET b == ret'.block_id IN
          IF b \in DOMAIN blocks
          THEN LET gone == Descendants(blocks, b)
                   parent == blocks[b].parent_id
               IN /\ DOMAIN blocks' = DOMAIN blocks \ gone
                  /\ \A k \in DOMAIN blocks' :
                       IF parent = Some(k)
                       THEN /\ \A i \in DOMAIN blocks'[k].children : blocks'[k].children[i] # b
                            /\ blocks'[k] = [blocks[k] EXCEPT !.children =
                                                SelectSeq(@, LAMBDA id : id # b)]
                       ELSE blocks'[k] = blocks[k]
          ELSE blocks' = blocks]_vars

\* after a delete_block whose block is gone: a block that kept its child, and
\* a childless block besides
C22_Witness ==
    /\ ret.op = "delete_block"
    /\ ret.block_id \notin DOMAIN blocks
    /\ Cardinality(DOMAIN blocks) = 2
    /\ \E k \in DOMAIN blocks : blocks[k].children = <<>> /\ blocks[k].parent_id # None
    /\ \E k \in DOMAIN blocks : Len(blocks[k].children) = 1

====
